---- MODULE Spec2Model ----
(***************************************************************************)
(* The photo gallery screen of src/unnamed/part_000 (the revision with the *)
(* width/height fields, the blur slider and the greyscale switch):        *)
(* AppContent (committed filter, image list, loading flag, fetch batches)  *)
(* and BottomSheet (the draft of the filter, validation, confirm and       *)
(* dismiss, the slide animation, the layout and the keyboard listeners).   *)
(*                                                                         *)
(* One action is one JavaScript task: an event handler or a network        *)
(* completion, together with the React render it causes and the effects    *)
(* that render runs (an effect runs when one of its dependencies changed). *)
(*                                                                         *)
(* Representation.  A text is a sequence of pieces.  A typed text and a   *)
(* number in decimal are sequences of one-character strings; in a URL the  *)
(* separators "?", "&" and "=" are pieces of their own between the literal *)
(* pieces of the template.  A JavaScript number that may be NaN is <<>>    *)
(* (NaN) or <<n>>.  An optional argument is <<>> (undefined) or <<v>>.     *)
(***************************************************************************)
EXTENDS Integers, Sequences, FiniteSets, TLC

(***************************************************************************)
(* Bounds of the model.                                                    *)
(***************************************************************************)
\* Requests of one batch.  The code issues 10 (Array.from({ length: 10 }));
\* the model fans out BatchLength requests, indices 0 .. BatchLength-1.
BatchLength == 2
\* Batches started in one run by mount and commits; a pull-to-refresh may
\* start one more (MaxPulledBatches), so that a pull can follow a commit.
MaxBatches == 3
MaxPulledBatches == MaxBatches + 1
\* Frames of a slide animation of the sheet: the animated value goes from 0
\* to 1 in steps of 1/AnimationFrames.
AnimationFrames == 2

(***************************************************************************)
(* Texts and numbers.                                                      *)
(***************************************************************************)
DecimalDigits == <<"0", "1", "2", "3", "4", "5", "6", "7", "8", "9">>
HexDigits == DecimalDigits \o <<"a", "b", "c", "d", "e", "f">>
HexDigitsUpper == DecimalDigits \o <<"A", "B", "C", "D", "E", "F">>

NaN == <<>>
Num(n) == <<n>>
isNaN(v) == v = NaN
ValueOf(v) == v[1]

\* The value of character c as a digit of the radix, or -1.
DigitValue(c, radix) ==
  IF \E d \in 1..radix : HexDigits[d] = c \/ HexDigitsUpper[d] = c
  THEN (CHOOSE d \in 1..radix : HexDigits[d] = c \/ HexDigitsUpper[d] = c) - 1
  ELSE -1

\* Number.prototype.toString of a non-negative integer.
RECURSIVE toString(_)
toString(n) ==
  IF n < 10 THEN <<DecimalDigits[n + 1]>>
  ELSE toString(n \div 10) \o <<DecimalDigits[(n % 10) + 1]>>

\* The WhiteSpace and LineTerminator characters parseInt skips that a string
\* of this language can hold: space, tab, line feed, form feed, carriage
\* return, vertical tab (U+000B), no-break space (U+00A0), ogham space mark
\* (U+1680) and zero width no-break space (U+FEFF).  (U+2000 .. U+200A,
\* U+2028, U+2029, U+202F, U+205F and U+3000 cannot be written in a string.)
WhiteSpace == {" ", "\t", "\n", "\f", "\r", "", " ", " ", "﻿"}

RECURSIVE TrimStart(_)
TrimStart(text) ==
  IF text # <<>> /\ Head(text) \in WhiteSpace THEN TrimStart(Tail(text)) ELSE text

\* The longest prefix of digits of the radix, read as a number from acc.
\* Returns <<value, number of digits read>>.
RECURSIVE ParseDigits(_, _, _, _)
ParseDigits(text, radix, acc, count) ==
  IF text # <<>> /\ DigitValue(Head(text), radix) >= 0
  THEN ParseDigits(Tail(text), radix, acc * radix + DigitValue(Head(text), radix), count + 1)
  ELSE <<acc, count>>

\* parseInt(text) with no radix argument: leading white space is skipped, a
\* sign is read, a 0x/0X prefix selects radix 16, the longest prefix of digits
\* is the value and whatever follows it is ignored; no digit at all gives NaN.
parseInt(text) ==
  LET t1 == TrimStart(text)
      neg == t1 # <<>> /\ Head(t1) = "-"
      t2 == IF t1 # <<>> /\ Head(t1) \in {"-", "+"} THEN Tail(t1) ELSE t1
      hex == Len(t2) >= 2 /\ t2[1] = "0" /\ t2[2] \in {"x", "X"}
      t3 == IF hex THEN SubSeq(t2, 3, Len(t2)) ELSE t2
      r == ParseDigits(t3, IF hex THEN 16 ELSE 10, 0, 0)
  IN IF r[2] = 0 THEN NaN
     ELSE Num(IF neg THEN 0 - r[1] ELSE r[1])

WidthMessage == "Width must be between 100 and 1000"
HeightMessage == "Height must be between 100 and 1000"

\* (mutant) isValid looks at the width error alone.
validateDimensionsWidthOnly(newWidth, newHeight) ==
  LET widthNum == parseInt(newWidth)
      heightNum == parseInt(newHeight)
      wErr == IF isNaN(widthNum) \/ ValueOf(widthNum) < 100 \/ ValueOf(widthNum) > 1000
              THEN WidthMessage ELSE ""
      hErr == IF isNaN(heightNum) \/ ValueOf(heightNum) < 100 \/ ValueOf(heightNum) > 1000
              THEN HeightMessage ELSE ""
  IN [isValid |-> wErr = "", widthError |-> wErr, heightError |-> hErr]

validateDimensions(newWidth, newHeight) ==
  LET widthNum == parseInt(newWidth)
      heightNum == parseInt(newHeight)
      wErr == IF isNaN(widthNum) \/ ValueOf(widthNum) < 100 \/ ValueOf(widthNum) > 1000
              THEN WidthMessage ELSE ""
      hErr == IF isNaN(heightNum) \/ ValueOf(heightNum) < 100 \/ ValueOf(heightNum) > 1000
              THEN HeightMessage ELSE ""
  IN [isValid |-> wErr = "" /\ hErr = "", widthError |-> wErr, heightError |-> hErr]

(***************************************************************************)
(* The environment: what the user types and what the two endpoints answer. *)
(***************************************************************************)
\* Texts typed into the width field and into the height field (onChangeText):
\* no digit (empty, letters), a number below the range, in the range, above
\* the range, and (width) digits followed by other characters.
WidthTexts ==
  { <<>>, <<"5", "0">>, <<"5", "0", "0">>, <<"1", "5", "0", "0">>,
    <<"5", "0", "0", "a", "b", "c">> }
HeightTexts ==
  { <<"a", "b", "c">>, <<"5", "0">>, <<"5", "0", "0">>, <<"1", "5", "0", "0">> }
\* The one text typed where the responses of the batches are interleaved.
GalleryTexts == { <<"5", "0", "0">> }
\* Values the blur slider reports (minimumValue 0, maximumValue 10, step 1).
SliderMinimum == 0
SliderMaximum == 10
SliderValues == {SliderMinimum, SliderMaximum}
\* The image endpoint: the id of the image it serves to request `index` of the
\* batch numbered `batch` (the fifth segment of response.url).  Ids are
\* numbers; every request of a run is served another image.
ServedId(batch, index) == toString(100 * batch + index)
\* The metadata endpoint: the author of an image id (infoData.author).
AuthorOf(id) == <<"author of ">> \o id

\* The devices: Platform.OS, the height of the window and the bottom inset
\* of the safe area (a phone held upright, one held sideways).
Platforms == {"ios", "android"}
Windows == { [height |-> 844, bottomInset |-> 34], [height |-> 390, bottomInset |-> 21] }
\* Heights the keyboardWillShow event reports (e.endCoordinates.height).
KeyboardHeights == {216, 336}
\* The height onLayout reports for the content of the sheet: the rows and the
\* Done button, the error line when an error message is set, the bottom
\* margin of the Done button (Platform.OS === 'ios' ? 0 : 20) and the bottom
\* padding.
MeasuredContentHeight(withErrorLine, paddingBottom, platform) ==
  (IF withErrorLine THEN 299 ELSE 276)
    + (IF platform = "ios" THEN 0 ELSE 20)
    + paddingBottom

(***************************************************************************)
(* State.                                                                  *)
(***************************************************************************)
VARIABLES
  mounted,             \* AppContent and BottomSheet have run their mount effects
  bottomSheetVisible,  \* AppContent: useState(false)
  imageDimensions,     \* AppContent: committed {width, height}
  blurIntensity,       \* AppContent: committed blur
  isGreyscale,         \* AppContent: committed greyscale
  images,              \* AppContent: the fetched list
  loading,             \* AppContent: the loading flag
  batches,             \* the calls of refreshImages, in the order they started
  imageList,           \* ImageList: animatedImages and the state of slideAnim
  fetchCall,           \* the last call of fetchImageAndPhotographer followed alone
  width,               \* BottomSheet: draft width text
  height,              \* BottomSheet: draft height text
  localBlurIntensity,  \* BottomSheet: draft blur
  localIsGreyscale,    \* BottomSheet: draft greyscale
  widthError,          \* BottomSheet: error message of the width field
  heightError,         \* BottomSheet: error message of the height field
  slideAnim,           \* BottomSheet: the animated value, in 1/AnimationFrames
  contentHeight,       \* BottomSheet: the measured height of the content
  keyboardHeight,      \* BottomSheet: useState(0)
  isKeyboardVisible,   \* BottomSheet: useState(false)
  listeners,           \* Keyboard: the listeners registered for each event
  OS,                  \* Platform.OS
  window               \* Dimensions.get('window').height, insets.bottom

committed == <<imageDimensions, blurIntensity, isGreyscale>>
draft == <<width, height, localBlurIntensity, localIsGreyscale>>
errors == <<widthError, heightError>>
gallery == <<images, loading, batches>>
sheetLayout == <<slideAnim, contentHeight, keyboardHeight, isKeyboardVisible>>
device == <<OS, window>>
layout == <<sheetLayout, listeners, device>>
vars == <<mounted, bottomSheetVisible, committed, gallery, imageList, fetchCall,
          draft, errors, layout>>

Indices == 0 .. BatchLength - 1

(***************************************************************************)
(* fetchImageAndPhotographer: the item built from the two responses.       *)
(***************************************************************************)
\* Math.floor(1000 + Math.random() * 9000) is a number of 1000 .. 9999: the
\* two ends.
RandomNumbers == {1000, 9999}

\* blurParam and greyscaleParam of the image request.
blurParam(blur) == IF blur > 0 THEN <<"&", "blur", "=">> \o toString(blur) ELSE <<>>
greyscaleParam(greyscale) == IF greyscale THEN <<"&", "grayscale">> ELSE <<>>

\* The URL of the image request:
\* https://picsum.photos/${width}/${height}?random=${randomNumber}${blurParam}${greyscaleParam}
RequestUrl(dimensions, randomNumber, blur, greyscale) ==
  <<"https://picsum.photos/">> \o toString(dimensions.width)
    \o <<"/">> \o toString(dimensions.height)
    \o <<"?", "random", "=">> \o toString(randomNumber)
    \o blurParam(blur) \o greyscaleParam(greyscale)

\* The URL of the metadata request: https://picsum.photos/id/${id}/info
InfoUrl(id) == <<"https://picsum.photos/id/">> \o id \o <<"/info">>

\* (mutant) the grayscale flag of the uri is joined with "&", as it is in the
\* URL of the request.
ImageUriAmpersand(id, dimensions, blur, greyscale) ==
  <<"https://picsum.photos/id/">> \o id \o <<"/">> \o toString(dimensions.width)
    \o <<"/">> \o toString(dimensions.height)
    \o (IF blur > 0 THEN <<"?", "blur", "=">> \o toString(blur) ELSE <<>>)
    \o greyscaleParam(greyscale)

\* uri: https://picsum.photos/id/${id}/${width}/${height} and the query.
ImageUri(id, dimensions, blur, greyscale) ==
  <<"https://picsum.photos/id/">> \o id \o <<"/">> \o toString(dimensions.width)
    \o <<"/">> \o toString(dimensions.height)
    \o (IF blur > 0 THEN <<"?", "blur", "=">> \o toString(blur) ELSE <<>>)
    \o (IF greyscale THEN <<IF blur > 0 THEN "&" ELSE "?", "grayscale">> ELSE <<>>)

\* (mutant) the item is keyed by the id of the image that was served.
ImageItemKeyedByServedId(index, dimensions, blur, greyscale, id, author, batch) ==
  [ id |-> <<"image-">> \o id,
    uri |-> ImageUri(id, dimensions, blur, greyscale),
    photographer |-> author,
    batch |-> batch ]

\* The ImageItem request `index` of batch `batch` resolves to.  The field
\* batch is a history field (the number of the refreshImages call the item
\* was fetched by); the code's item has no such field.
ImageItem(index, dimensions, blur, greyscale, id, author, batch) ==
  [ id |-> <<"image-">> \o toString(index),
    uri |-> ImageUri(id, dimensions, blur, greyscale),
    photographer |-> author,
    batch |-> batch ]

\* (mutant) the value of a promise is pushed when the promise resolves: it
\* takes the first free position.
PromiseAllPush(values, index, item) ==
  [values EXCEPT ![CHOOSE k \in Indices :
                     values[k] = <<>> /\ \A j \in 0 .. k - 1 : values[j] # <<>>] = <<item>>]
\* Promise.all keeps the value of promise `index` at position `index`.
PromiseAllStore(values, index, item) == [values EXCEPT ![index] = <<item>>]
\* Promise.all is fulfilled when every promise is.
PromiseAllFulfilled(values) == \A i \in Indices : values[i] # <<>>
\* The array Promise.all resolves to.
PromiseAllValues(values) == [k \in 1 .. BatchLength |-> values[k - 1][1]]

\* (mutant) the fetched items are appended to the list that is shown.
SetImagesAppend(current, newImages) == current \o newImages
\* setImages(newImages): the list is replaced by the array it is given.
SetImages(current, newImages) == newImages

(***************************************************************************)
(* ImageList: animatedImages and the slide-out animation.                  *)
(***************************************************************************)
\* useState(images) of the first render and new Animated.Value(0).
ImageListConstructed == [animatedImages |-> <<>>, slideAnim |-> "idle"]

\* Animated.timing(slideAnim, {toValue: 1, duration: 200}).start(callback):
\* starting an animation on a value stops the one that runs on it, and a
\* stopped animation calls its callback (with finished: false): the callback
\* of the earlier start runs setAnimatedImages([]).
SlideOutStart(list) ==
  [ animatedImages |-> IF list.slideAnim = "timing" THEN <<>> ELSE list.animatedImages,
    slideAnim |-> "timing" ]

\* setAnimatedImages(images); slideAnim.setValue(0): setValue stops the
\* animation that runs on the value, whose callback then runs
\* setAnimatedImages([]) after the images were set: the later update wins.
SlideOutReset(list, newImages) ==
  [ animatedImages |-> IF list.slideAnim = "timing" THEN <<>> ELSE newImages,
    slideAnim |-> "idle" ]

\* useEffect(..., [loading, images]) after a render with the given loading
\* flag and list, when one of the two changed (setImages([]) is a change:
\* every [] is another array).
ImageListEffect(list, depsChanged, newLoading, newImages) ==
  IF ~depsChanged THEN list
  ELSE IF newLoading /\ Len(newImages) = 0 THEN SlideOutStart(list)
  ELSE IF ~newLoading THEN SlideOutReset(list, newImages)
  ELSE list

(***************************************************************************)
(* refreshImages.                                                          *)
(***************************************************************************)
\* The requests of a call of refreshImages: every fetchImageAndPhotographer
\* has issued its image request and awaits the response.
NewBatch(dimensions, blurSetting, greyscaleSetting) ==
  [ dimensions |-> dimensions, blur |-> blurSetting, greyscale |-> greyscaleSetting,
    state |-> "pending",
    requests |-> [i \in Indices |-> [stage |-> "image", id |-> <<>>]],
    values |-> [i \in Indices |-> <<>>] ]

\* A request that has run to its end.
Done == [stage |-> "done", id |-> <<>>]

\* A batch whose Promise.all has settled with every request at its end.
Settled(batch, state) ==
  [ batch EXCEPT !.state = state,
                 !.requests = [i \in Indices |-> Done],
                 !.values = [i \in Indices |-> <<>>] ]

\* A batch whose Promise.all has rejected because request `index` failed, or
\* whose component was unmounted (index -1): the other requests are not
\* cancelled.  One that awaits its image response will still issue its
\* metadata request; whatever else the requests do sets nothing and is not
\* followed.
Dropped(batch, state, index) ==
  [ batch EXCEPT !.state = state,
                 !.requests = [i \in Indices |->
                                 IF i # index /\ batch.requests[i].stage = "image"
                                 THEN batch.requests[i] ELSE Done],
                 !.values = [i \in Indices |-> <<>>] ]

\* The synchronous part of refreshImages, called from a render whose state is
\* `closure`: the arguments win over the closure's committed filter.
\* (setLoading(true) and setImages([]) are in the actions that call it.)
refreshImages(bs, newDimensions, newBlurIntensity, newIsGreyscale, closure) ==
  LET dimensions == IF newDimensions # <<>> THEN newDimensions[1] ELSE closure[1]
      blurSetting == IF newBlurIntensity # <<>> THEN newBlurIntensity[1] ELSE closure[2]
      greyscaleSetting == IF newIsGreyscale # <<>> THEN newIsGreyscale[1] ELSE closure[3]
  IN Append(bs, NewBatch(dimensions, blurSetting, greyscaleSetting))

\* useCallback(..., [imageDimensions, blurIntensity, isGreyscale]): the
\* identity of refreshImages changes when setImageDimensions got an object
\* (handleDone always builds a new one) or blur or greyscale changed value.
RefreshImagesChanged(newDimensions, newBlurIntensity, newIsGreyscale) ==
  \/ newDimensions # <<>>
  \/ newBlurIntensity # <<>> /\ newBlurIntensity[1] # blurIntensity
  \/ newIsGreyscale # <<>> /\ newIsGreyscale[1] # isGreyscale

\* useEffect(() => { refreshImages(); }, [refreshImages]) after a render in
\* which refreshImages changed: a call with no argument from the new render.
RefreshEffect(bs, changed, closure) ==
  IF changed THEN refreshImages(bs, <<>>, <<>>, <<>>, closure) ELSE bs

(***************************************************************************)
(* BottomSheet.                                                            *)
(***************************************************************************)
\* (mutant) the effect resets the two texts and leaves blur and greyscale.
BottomSheetEffectDimensionsOnly(depsChanged) ==
  IF depsChanged /\ bottomSheetVisible'
  THEN /\ width' = toString(imageDimensions'.width)
       /\ height' = toString(imageDimensions'.height)
       /\ UNCHANGED <<localBlurIntensity, localIsGreyscale>>
  ELSE UNCHANGED draft

\* useEffect(..., [visible, totalHeight, currentDimensions, blurIntensity,
\* isGreyscale]): when it runs with visible set, the draft is reset to the
\* committed filter.  (The animation it starts goes to SlideTarget, frame by
\* frame in SlideFrame.)
BottomSheetEffect(depsChanged) ==
  IF depsChanged /\ bottomSheetVisible'
  THEN /\ width' = toString(imageDimensions'.width)
       /\ height' = toString(imageDimensions'.height)
       /\ localBlurIntensity' = blurIntensity'
       /\ localIsGreyscale' = isGreyscale'
  ELSE UNCHANGED draft

\* (mutant) the new blur and greyscale are fetched with and not committed.
handleBottomSheetCloseDimensionsOnly(newDimensions, newBlurIntensity, newIsGreyscale) ==
  /\ bottomSheetVisible' = FALSE
  /\ IF newDimensions # <<>> \/ newBlurIntensity # <<>> \/ newIsGreyscale # <<>>
     THEN /\ imageDimensions' =
               IF newDimensions # <<>> THEN newDimensions[1] ELSE imageDimensions
          /\ UNCHANGED <<blurIntensity, isGreyscale>>
          /\ loading' = TRUE
          /\ images' = <<>>
          /\ batches' =
               RefreshEffect(
                 refreshImages(batches,
                               IF newDimensions # <<>> THEN newDimensions
                               ELSE <<imageDimensions>>,
                               newBlurIntensity, newIsGreyscale, committed),
                 newDimensions # <<>>,
                 committed')
          /\ Len(batches') <= MaxBatches
          /\ imageList' = ImageListEffect(ImageListEffect(imageList, TRUE, TRUE, <<>>),
                                          newDimensions # <<>>, TRUE, <<>>)
     ELSE UNCHANGED <<committed, gallery, imageList>>
  /\ BottomSheetEffect(TRUE)

\* handleBottomSheetClose, with the render and the effects that follow it.
handleBottomSheetClose(newDimensions, newBlurIntensity, newIsGreyscale) ==
  /\ bottomSheetVisible' = FALSE
  /\ IF newDimensions # <<>> \/ newBlurIntensity # <<>> \/ newIsGreyscale # <<>>
     THEN /\ imageDimensions' =
               IF newDimensions # <<>> THEN newDimensions[1] ELSE imageDimensions
          /\ blurIntensity' =
               IF newBlurIntensity # <<>> THEN newBlurIntensity[1] ELSE blurIntensity
          /\ isGreyscale' =
               IF newIsGreyscale # <<>> THEN newIsGreyscale[1] ELSE isGreyscale
          /\ loading' = TRUE
          /\ images' = <<>>
          /\ batches' =
               RefreshEffect(
                 refreshImages(batches,
                               IF newDimensions # <<>> THEN newDimensions
                               ELSE <<imageDimensions>>,
                               newBlurIntensity, newIsGreyscale, committed),
                 RefreshImagesChanged(newDimensions, newBlurIntensity, newIsGreyscale),
                 committed')
          /\ Len(batches') <= MaxBatches
          /\ imageList' =
               ImageListEffect(
                 ImageListEffect(imageList, TRUE, TRUE, <<>>),
                 RefreshImagesChanged(newDimensions, newBlurIntensity, newIsGreyscale),
                 TRUE, <<>>)
     ELSE UNCHANGED <<committed, gallery, imageList>>
  /\ BottomSheetEffect(TRUE)

\* (mutant) Done closes with the draft without comparing it to the props.
handleDoneAlwaysCommits ==
  /\ mounted /\ bottomSheetVisible
  /\ LET v == validateDimensions(width, height)
     IN /\ widthError' = v.widthError
        /\ heightError' = v.heightError
        /\ IF v.isValid
           THEN handleBottomSheetClose(
                  <<[width |-> ValueOf(parseInt(width)),
                     height |-> ValueOf(parseInt(height))]>>,
                  <<localBlurIntensity>>, <<localIsGreyscale>>)
           ELSE UNCHANGED <<bottomSheetVisible, committed, gallery, imageList, draft>>
  /\ UNCHANGED <<layout, fetchCall, mounted>>

\* (mutant) Done closes the sheet when validation fails, too.
handleDoneClosesOnInvalid ==
  /\ mounted /\ bottomSheetVisible
  /\ LET v == validateDimensions(width, height)
     IN /\ widthError' = v.widthError
        /\ heightError' = v.heightError
        /\ IF v.isValid
           THEN LET newWidth == ValueOf(parseInt(width))
                    newHeight == ValueOf(parseInt(height))
                IN IF \/ newWidth # imageDimensions.width
                      \/ newHeight # imageDimensions.height
                      \/ localBlurIntensity # blurIntensity
                      \/ localIsGreyscale # isGreyscale
                   THEN handleBottomSheetClose(
                          <<[width |-> newWidth, height |-> newHeight]>>,
                          <<localBlurIntensity>>, <<localIsGreyscale>>)
                   ELSE handleBottomSheetClose(<<>>, <<>>, <<>>)
           ELSE handleBottomSheetClose(<<>>, <<>>, <<>>)
  /\ UNCHANGED <<layout, fetchCall, mounted>>

\* The Done button.
handleDone ==
  /\ mounted /\ bottomSheetVisible
  /\ LET v == validateDimensions(width, height)
     IN /\ widthError' = v.widthError
        /\ heightError' = v.heightError
        /\ IF v.isValid
           THEN LET newWidth == ValueOf(parseInt(width))
                    newHeight == ValueOf(parseInt(height))
                IN IF \/ newWidth # imageDimensions.width
                      \/ newHeight # imageDimensions.height
                      \/ localBlurIntensity # blurIntensity
                      \/ localIsGreyscale # isGreyscale
                   THEN handleBottomSheetClose(
                          <<[width |-> newWidth, height |-> newHeight]>>,
                          <<localBlurIntensity>>, <<localIsGreyscale>>)
                   ELSE handleBottomSheetClose(<<>>, <<>>, <<>>)
           ELSE UNCHANGED <<bottomSheetVisible, committed, gallery, imageList, draft>>
  /\ UNCHANGED <<layout, fetchCall, mounted>>

\* (mutant) the tap hands the current dimensions to onClose.
TapOutsideRefetches ==
  /\ mounted /\ bottomSheetVisible
  /\ handleBottomSheetClose(<<imageDimensions>>, <<>>, <<>>)
  /\ UNCHANGED <<layout, fetchCall, mounted, errors>>

\* A tap outside the sheet: onPress={() => onClose()}.
TapOutside ==
  /\ mounted /\ bottomSheetVisible
  /\ handleBottomSheetClose(<<>>, <<>>, <<>>)
  /\ UNCHANGED <<layout, fetchCall, mounted, errors>>

\* (mutant) opening the sheet clears the two error messages.
handleFilterPressClearsErrors ==
  /\ mounted /\ ~bottomSheetVisible
  /\ bottomSheetVisible' = TRUE
  /\ widthError' = ""
  /\ heightError' = ""
  /\ UNCHANGED <<layout, fetchCall, mounted, committed, gallery, imageList>>
  /\ BottomSheetEffect(TRUE)

\* The filter button of the title bar (covered by the sheet's touchable while
\* the sheet is visible).
handleFilterPress ==
  /\ mounted /\ ~bottomSheetVisible
  /\ bottomSheetVisible' = TRUE
  /\ UNCHANGED <<layout, fetchCall, mounted, committed, gallery, imageList, errors>>
  /\ BottomSheetEffect(TRUE)

\* onChangeText={setWidth}, onChangeText={setHeight}: the state setters
\* themselves.  The fields stay mounted while the sheet is hidden, and a
\* field that had the focus when the sheet was dismissed keeps it: text can
\* be typed whether or not the sheet is visible.
setWidth(text) ==
  /\ mounted
  /\ width' = text
  /\ UNCHANGED <<layout, fetchCall, mounted, bottomSheetVisible, committed, gallery, imageList, height,
                 localBlurIntensity, localIsGreyscale, errors>>

setHeight(text) ==
  /\ mounted
  /\ height' = text
  /\ UNCHANGED <<layout, fetchCall, mounted, bottomSheetVisible, committed, gallery, imageList, width,
                 localBlurIntensity, localIsGreyscale, errors>>

\* (mutant) the slider applies the blur at once: it commits the value and
\* fetches with it.
setLocalBlurIntensityLive(value) ==
  /\ mounted /\ bottomSheetVisible
  /\ localBlurIntensity' = value
  /\ blurIntensity' = value
  /\ loading' = TRUE
  /\ images' = <<>>
  /\ batches' = refreshImages(batches, <<>>, <<value>>, <<>>, committed)
  /\ Len(batches') <= MaxBatches
  /\ imageList' = ImageListEffect(imageList, TRUE, TRUE, <<>>)
  /\ UNCHANGED <<layout, fetchCall, mounted, bottomSheetVisible, imageDimensions, isGreyscale,
                 width, height, localIsGreyscale, errors>>

\* Slider onValueChange={setLocalBlurIntensity}.
setLocalBlurIntensity(value) ==
  /\ mounted /\ bottomSheetVisible
  /\ localBlurIntensity' = value
  /\ UNCHANGED <<layout, fetchCall, mounted, bottomSheetVisible, committed, gallery, imageList, width, height,
                 localIsGreyscale, errors>>

\* Switch onValueChange={setLocalIsGreyscale}.
setLocalIsGreyscale(value) ==
  /\ mounted /\ bottomSheetVisible
  /\ localIsGreyscale' = value
  /\ UNCHANGED <<layout, fetchCall, mounted, bottomSheetVisible, committed, gallery, imageList, width, height,
                 localBlurIntensity, errors>>

(***************************************************************************)
(* BottomSheet: the slide animation, the layout and the keyboard.          *)
(***************************************************************************)
\* AppContent: Math.max(insets.bottom || 0, 0); BottomSheet: safeBottomInset.
bottomInset == IF window.bottomInset > 0 THEN window.bottomInset ELSE 0
safeBottomInset == IF bottomInset > 0 THEN bottomInset ELSE 0
totalHeight == contentHeight + safeBottomInset

\* A length that need not be a whole number of points is a fraction
\* <<numerator, denominator>> in lowest terms: 183.5 is <<367, 2>>, 0 is
\* <<0, 1>>.
RECURSIVE GCD(_, _)
GCD(a, b) == IF b = 0 THEN a ELSE GCD(b, a % b)
Fraction(numerator, denominator) ==
  LET g == GCD(IF numerator < 0 THEN 0 - numerator ELSE numerator, denominator)
  IN <<numerator \div g, denominator \div g>>

\* Animated interpolate with extrapolate 'clamp': the input is clamped to the
\* input range and mapped linearly onto the output range; the result is
\* exact (a fraction).
interpolate(value, inputRange, outputRange) ==
  LET clamped == IF value < inputRange[1] THEN inputRange[1]
                 ELSE IF value > inputRange[2] THEN inputRange[2] ELSE value
  IN Fraction(outputRange[1] * (inputRange[2] - inputRange[1])
                + (clamped - inputRange[1]) * (outputRange[2] - outputRange[1]),
              inputRange[2] - inputRange[1])

\* The height of the content as the last render laid it out: with the error
\* line when one of the two messages is set.
LaidOutContentHeight ==
  MeasuredContentHeight(widthError # "" \/ heightError # "", safeBottomInset, OS)

\* The first entry of translateY's outputRange: where the sheet rests.
RestingTranslateY ==
  IF OS = "ios" THEN (IF isKeyboardVisible THEN 0 - keyboardHeight ELSE 0) ELSE 0

\* translateY of the sheet for the current animated value (slideAnim counts
\* in 1/AnimationFrames, so the input range 0 .. 1 is 0 .. AnimationFrames).
translateY ==
  interpolate(slideAnim, <<0, AnimationFrames>>, <<RestingTranslateY, totalHeight>>)

\* The top edge of the sheet, from the top of the window: the sheet is
\* anchored to the bottom (bottom: 0), as high as its content, moved by
\* translateY (a fraction).  The sheet on screen is as high as its content is
\* laid out, whether or not onLayout has reported that height yet.
SheetTop ==
  Fraction((window.height - LaidOutContentHeight) * translateY[2] + translateY[1],
           translateY[2])

\* The value the running animation goes to: 0 while visible is set, else 1.
SlideTarget == IF bottomSheetVisible THEN 0 ELSE AnimationFrames

\* A frame of the animation started by the effect on visible.
SlideFrame ==
  /\ mounted
  /\ slideAnim # SlideTarget
  /\ slideAnim' = IF slideAnim < SlideTarget THEN slideAnim + 1 ELSE slideAnim - 1
  /\ UNCHANGED <<mounted, bottomSheetVisible, committed, gallery, imageList, draft, errors,
                 contentHeight, keyboardHeight, isKeyboardVisible, listeners, device, fetchCall>>

\* (mutant) totalHeight is no dependency of the effect: a new measure of the
\* content leaves the draft alone.
onLayoutKeepsDraft ==
  /\ mounted
  /\ LET measured == LaidOutContentHeight
     IN /\ contentHeight # measured
        /\ contentHeight' = measured
  /\ UNCHANGED <<mounted, bottomSheetVisible, committed, gallery, imageList, errors,
                 slideAnim, keyboardHeight, isKeyboardVisible, listeners, device, fetchCall>>
  /\ UNCHANGED draft

\* onLayout of the content: setContentHeight(height); totalHeight is a
\* dependency of the effect, which runs again.
onLayout ==
  /\ mounted
  /\ LET measured == LaidOutContentHeight
     IN /\ contentHeight # measured
        /\ contentHeight' = measured
  /\ UNCHANGED <<mounted, bottomSheetVisible, committed, gallery, imageList, errors,
                 slideAnim, keyboardHeight, isKeyboardVisible, listeners, device, fetchCall>>
  /\ BottomSheetEffect(TRUE)

\* (mutant) the cleanup removes the keyboardWillShow listener alone.
KeyboardEffectCleanupShowOnly(registered) ==
  [registered EXCEPT !.keyboardWillShow = @ - 1]

\* useEffect(..., []) of the sheet on mount: Keyboard.addListener twice.
KeyboardEffect(registered) ==
  [registered EXCEPT !.keyboardWillShow = @ + 1, !.keyboardWillHide = @ + 1]
\* Its cleanup on unmount: remove() of both subscriptions.
KeyboardEffectCleanup(registered) ==
  [registered EXCEPT !.keyboardWillShow = @ - 1, !.keyboardWillHide = @ - 1]

\* The keyboardWillShow event with the height it reports.  (Keyboard.dismiss()
\* in handleDone changes no state itself: the keyboardWillHide event that
\* follows it does.)
keyboardWillShow(reported) ==
  /\ mounted
  /\ listeners.keyboardWillShow > 0
  /\ IF OS = "ios"
     THEN keyboardHeight' = reported /\ isKeyboardVisible' = TRUE
     ELSE UNCHANGED <<keyboardHeight, isKeyboardVisible>>
  /\ UNCHANGED <<mounted, bottomSheetVisible, committed, gallery, imageList, draft, errors,
                 slideAnim, contentHeight, listeners, device, fetchCall>>

\* The keyboardWillHide event.
keyboardWillHide ==
  /\ mounted
  /\ listeners.keyboardWillHide > 0
  /\ IF OS = "ios"
     THEN keyboardHeight' = 0 /\ isKeyboardVisible' = FALSE
     ELSE UNCHANGED <<keyboardHeight, isKeyboardVisible>>
  /\ UNCHANGED <<mounted, bottomSheetVisible, committed, gallery, imageList, draft, errors,
                 slideAnim, contentHeight, listeners, device, fetchCall>>

(***************************************************************************)
(* AppContent: mount, pull-to-refresh, the responses of a batch.           *)
(***************************************************************************)
\* (mutant) the effect on refreshImages runs twice on mount.
MountFetchesTwice ==
  /\ ~mounted
  /\ mounted' = TRUE
  /\ loading' = TRUE
  /\ images' = <<>>
  /\ batches' = RefreshEffect(RefreshEffect(batches, TRUE, committed), TRUE, committed)
  /\ Len(batches') <= MaxBatches
  /\ imageList' = ImageListEffect(ImageListEffect(imageList, TRUE, TRUE, <<>>),
                                  TRUE, TRUE, <<>>)
  /\ listeners' = KeyboardEffect(listeners)
  /\ UNCHANGED <<bottomSheetVisible, committed, draft, errors, sheetLayout, device, fetchCall>>

\* The first render's effects: ImageList's effect starts the slide-out, and
\* refreshImages() with the default filter, whose setImages([]) makes
\* ImageList's effect run once more.
Mount ==
  /\ ~mounted
  /\ mounted' = TRUE
  /\ loading' = TRUE
  /\ images' = <<>>
  /\ batches' = RefreshEffect(batches, TRUE, committed)
  /\ Len(batches') <= MaxBatches
  /\ imageList' = ImageListEffect(ImageListEffect(imageList, TRUE, TRUE, <<>>),
                                  TRUE, TRUE, <<>>)
  /\ listeners' = KeyboardEffect(listeners)
  /\ UNCHANGED <<bottomSheetVisible, committed, draft, errors, sheetLayout, device, fetchCall>>

\* AppContent and the sheet are unmounted: the cleanup of the effects runs,
\* the state of the components is dropped (a later mount constructs it again)
\* and the responses of the batches in flight set nothing any more.
Unmount ==
  /\ mounted
  /\ mounted' = FALSE
  /\ listeners' = KeyboardEffectCleanup(listeners)
  /\ batches' = [b \in DOMAIN batches |->
                   IF batches[b].state = "pending"
                   THEN Dropped(batches[b], "unmounted", -1) ELSE batches[b]]
  /\ bottomSheetVisible' = FALSE
  /\ imageDimensions' = [width |-> 900, height |-> 600]
  /\ blurIntensity' = 0
  /\ isGreyscale' = FALSE
  /\ images' = <<>>
  /\ loading' = TRUE
  /\ imageList' = ImageListConstructed
  /\ width' = toString(900)
  /\ height' = toString(600)
  /\ localBlurIntensity' = 0
  /\ localIsGreyscale' = FALSE
  /\ widthError' = ""
  /\ heightError' = ""
  /\ slideAnim' = AnimationFrames
  /\ contentHeight' = 0
  /\ keyboardHeight' = 0
  /\ isKeyboardVisible' = FALSE
  /\ UNCHANGED <<device, fetchCall>>

\* (mutant) useCallback(..., []): the handler keeps the refreshImages of the
\* first render, which closes over the default filter.
handleRefreshStale ==
  /\ mounted /\ ~loading /\ ~bottomSheetVisible
  /\ loading' = TRUE
  /\ images' = <<>>
  /\ batches' = refreshImages(batches, <<>>, <<>>, <<>>,
                              <<[width |-> 900, height |-> 600], 0, FALSE>>)
  /\ Len(batches') <= MaxPulledBatches
  /\ imageList' = ImageListEffect(imageList, TRUE, TRUE, <<>>)
  /\ UNCHANGED <<layout, fetchCall, mounted, bottomSheetVisible, committed, draft, errors>>

\* RefreshControl onRefresh (refreshing={loading}: no pull while loading; the
\* list is covered by the sheet's touchable while the sheet is visible).
handleRefresh ==
  /\ mounted /\ ~loading /\ ~bottomSheetVisible
  /\ loading' = TRUE
  /\ images' = <<>>
  /\ batches' = refreshImages(batches, <<>>, <<>>, <<>>, committed)
  /\ Len(batches') <= MaxPulledBatches
  /\ imageList' = ImageListEffect(imageList, TRUE, TRUE, <<>>)
  /\ UNCHANGED <<layout, fetchCall, mounted, bottomSheetVisible, committed, draft, errors>>

\* The image response of request i of batch b arrives: its url names the id,
\* and fetchImageAndPhotographer issues the metadata request (whether or not
\* the batch has been rejected meanwhile: the metadata of a dropped batch is
\* requested and not followed further).
ImageResponse(b, i) ==
  /\ b \in DOMAIN batches
  /\ batches[b].requests[i].stage = "image"
  /\ batches' = [batches EXCEPT ![b].requests[i] =
                                   IF batches[b].state = "pending"
                                   THEN [stage |-> "info", id |-> ServedId(b, i)]
                                   ELSE Done]
  /\ UNCHANGED <<layout, fetchCall, mounted, bottomSheetVisible, committed, images, loading,
                 imageList, draft, errors>>

\* The body of the metadata response of request i of batch b has been read
\* (await infoResponse.json() resumes): the request resolves to its item;
\* when it was the last one, Promise.all resolves and refreshImages
\* continues: setImages(newImages), then setLoading(false).  The item of a
\* request of a batch that was rejected is dropped.  (The task before it, in
\* which the response arrives and json() is called, sets nothing: a request
\* at stage "info" awaits the response or its body.)
InfoResponse(b, i) ==
  /\ b \in DOMAIN batches
  /\ batches[b].requests[i].stage = "info"
  /\ LET batch == batches[b]
         id == batch.requests[i].id
         item == ImageItem(i, batch.dimensions, batch.blur, batch.greyscale,
                           id, AuthorOf(id), b)
         values == PromiseAllStore(batch.values, i, item)
     IN IF batch.state # "pending"
        THEN /\ batches' = [batches EXCEPT ![b].requests[i] = Done]
             /\ UNCHANGED <<images, loading, imageList>>
        ELSE IF PromiseAllFulfilled(values)
        THEN /\ images' = SetImages(images, PromiseAllValues(values))
             /\ loading' = FALSE
             /\ batches' = [batches EXCEPT ![b] = Settled(batch, "fulfilled")]
             /\ imageList' = ImageListEffect(imageList, TRUE, FALSE, images')
        ELSE /\ batches' = [batches EXCEPT ![b].requests[i].stage = "done",
                                           ![b].values = values]
             /\ UNCHANGED <<images, loading, imageList>>
  /\ UNCHANGED <<layout, fetchCall, mounted, bottomSheetVisible, committed, draft, errors>>

\* (mutant) the catch block calls refreshImages() again.
RequestRejectedRetries(b, i) ==
  /\ IF batches[b].state = "pending"
     THEN /\ loading' = TRUE
          /\ batches' = refreshImages(
                           [batches EXCEPT ![b] = Dropped(batches[b], "rejected", i)],
                           <<>>, <<>>, <<>>, committed)
          /\ Len(batches') <= MaxBatches
          /\ imageList' = ImageListEffect(imageList, TRUE, TRUE, <<>>)
     ELSE /\ batches' = [batches EXCEPT ![b].requests[i] = Done]
          /\ UNCHANGED <<loading, imageList>>
  /\ UNCHANGED <<layout, fetchCall, mounted, bottomSheetVisible, committed, images, draft, errors>>

\* Request i of batch b fails.  The first failure of a batch rejects its
\* Promise.all: refreshImages logs the error and runs finally:
\* setLoading(false).  A later failure has no handler left to run.
RequestRejected(b, i) ==
  /\ IF batches[b].state = "pending"
     THEN /\ loading' = FALSE
          /\ batches' = [batches EXCEPT ![b] = Dropped(batches[b], "rejected", i)]
          /\ imageList' = ImageListEffect(imageList, loading, FALSE, images)
     ELSE /\ batches' = [batches EXCEPT ![b].requests[i] = Done]
          /\ UNCHANGED <<loading, imageList>>
  /\ UNCHANGED <<layout, fetchCall, mounted, bottomSheetVisible, committed, images, draft, errors>>

\* The slide-out animation of ImageList reaches its end (200 ms after its
\* start): its callback runs setAnimatedImages([]).
SlideOutEnd ==
  /\ mounted
  /\ imageList.slideAnim = "timing"
  /\ imageList' = [animatedImages |-> <<>>, slideAnim |-> "idle"]
  /\ UNCHANGED <<layout, fetchCall, mounted, bottomSheetVisible, committed, gallery,
                 draft, errors>>

\* fetch of the image rejects.
ImageRequestFails(b, i) ==
  /\ b \in DOMAIN batches
  /\ batches[b].requests[i].stage = "image"
  /\ RequestRejected(b, i)

\* fetch of the metadata rejects, or infoResponse.json() throws.
InfoRequestFails(b, i) ==
  /\ b \in DOMAIN batches
  /\ batches[b].requests[i].stage = "info"
  /\ RequestRejected(b, i)

(***************************************************************************)
(* fetchImageAndPhotographer, one call followed alone from its arguments   *)
(* to the item it resolves to, a step for each of its awaits.              *)
(***************************************************************************)
\* The blur levels of the slider (step 1) and the dimensions a call is
\* followed with.
BlurLevels == SliderMinimum .. SliderMaximum
FetchDimensions == {[width |-> 100, height |-> 1000], [width |-> 900, height |-> 600]}

\* fetchImageAndPhotographer is called: it builds the URL of the image
\* request from its arguments and a random number, issues the request and
\* awaits the response.
fetchImageAndPhotographer(index, dimensions, blur, greyscale, randomNumber) ==
  /\ \A k \in DOMAIN fetchCall : fetchCall[k].stage \in {"done", "rejected"}
  /\ fetchCall' =
       << [ index |-> index, dimensions |-> dimensions, blur |-> blur,
            greyscale |-> greyscale, stage |-> "image",
            request |-> RequestUrl(dimensions, randomNumber, blur, greyscale),
            id |-> <<>>, info |-> <<>>, item |-> <<>> ] >>
  /\ UNCHANGED <<mounted, bottomSheetVisible, committed, gallery, imageList,
                 draft, errors, layout>>

\* The image response of the call arrives: the id is read from response.url
\* and the metadata request is issued.
FetchImageResponse ==
  /\ fetchCall # <<>> /\ fetchCall[1].stage = "image"
  /\ LET id == ServedId(1, fetchCall[1].index)
     IN fetchCall' = << [ fetchCall[1] EXCEPT !.stage = "info", !.id = id,
                                             !.info = InfoUrl(id) ] >>
  /\ UNCHANGED <<mounted, bottomSheetVisible, committed, gallery, imageList,
                 draft, errors, layout>>

\* The metadata response of the call arrives: infoResponse.json() is called
\* and awaited.
FetchInfoResponse ==
  /\ fetchCall # <<>> /\ fetchCall[1].stage = "info"
  /\ fetchCall' = << [ fetchCall[1] EXCEPT !.stage = "json" ] >>
  /\ UNCHANGED <<mounted, bottomSheetVisible, committed, gallery, imageList,
                 draft, errors, layout>>

\* The body of the metadata response has been read: the call resolves to
\* its item, built from the arguments the call was made with.
FetchInfoData ==
  /\ fetchCall # <<>> /\ fetchCall[1].stage = "json"
  /\ LET call == fetchCall[1]
     IN fetchCall' =
          << [ call EXCEPT !.stage = "done",
                           !.item = << ImageItem(call.index, call.dimensions, call.blur,
                                                 call.greyscale, call.id,
                                                 AuthorOf(call.id), 1) >> ] >>
  /\ UNCHANGED <<mounted, bottomSheetVisible, committed, gallery, imageList,
                 draft, errors, layout>>

\* One of the two fetches rejects or infoResponse.json() throws: the call
\* rejects and resolves to no item.
FetchRejected ==
  /\ fetchCall # <<>> /\ fetchCall[1].stage \in {"image", "info", "json"}
  /\ fetchCall' = << [ fetchCall[1] EXCEPT !.stage = "rejected" ] >>
  /\ UNCHANGED <<mounted, bottomSheetVisible, committed, gallery, imageList,
                 draft, errors, layout>>

(***************************************************************************)
(* The specification.                                                      *)
(***************************************************************************)
Constructed ==
  /\ mounted = FALSE
  /\ bottomSheetVisible = FALSE
  /\ imageDimensions = [width |-> 900, height |-> 600]
  /\ blurIntensity = 0
  /\ isGreyscale = FALSE
  /\ images = <<>>
  /\ loading = TRUE
  /\ batches = <<>>
  /\ imageList = ImageListConstructed
  /\ fetchCall = <<>>
  /\ width = toString(900)
  /\ height = toString(600)
  /\ localBlurIntensity = 0
  /\ localIsGreyscale = FALSE
  /\ widthError = ""
  /\ heightError = ""
  /\ slideAnim = AnimationFrames
  /\ contentHeight = 0
  /\ keyboardHeight = 0
  /\ isKeyboardVisible = FALSE
  /\ listeners = [keyboardWillShow |-> 0, keyboardWillHide |-> 0]

\* The gallery and the draft do not depend on the device: one device.
Init ==
  /\ Constructed
  /\ OS = "ios"
  /\ window = [height |-> 844, bottomInset |-> 34]

\* Every device.
InitLayout ==
  /\ Constructed
  /\ OS \in Platforms
  /\ window \in Windows

\* The batches whose Promise.all has not settled.
Pending == { b \in DOMAIN batches : batches[b].state = "pending" }

\* No request of batch b other than request i awaits its image response:
\* when request i fails now, no request of the batch issues another one.
OthersPastImage(b, i) ==
  \A j \in Indices \ {i} : batches[b].requests[j].stage # "image"

\* The gallery: mount, pull-to-refresh, every interleaving of the responses of
\* the batches, and the sheet used to commit one other width.  What the
\* requests of a rejected batch do after the rejection sets nothing the
\* gallery shows: it is followed in SpecRequests, and here a request fails
\* when the others have their image response.  A pull after the last commit
\* is followed in SpecRefresh.
Next ==
  \/ Mount
  \/ handleFilterPress
  \/ \E text \in GalleryTexts : setWidth(text)
  \/ handleDone
  \/ TapOutside
  \/ Len(batches) < MaxBatches /\ handleRefresh
  \/ \E b \in Pending, i \in Indices : ImageResponse(b, i)
  \/ \E b \in Pending, i \in Indices : InfoResponse(b, i)
  \/ \E b \in Pending, i \in Indices : OthersPastImage(b, i) /\ ImageRequestFails(b, i)
  \/ \E b \in Pending, i \in Indices : OthersPastImage(b, i) /\ InfoRequestFails(b, i)

Spec == Init /\ [][Next]_vars

\* Pull-to-refresh before and after a commit, while the batches in flight
\* are answered in every order.
NextRefresh ==
  \/ Mount
  \/ handleFilterPress
  \/ \E text \in GalleryTexts : setWidth(text)
  \/ handleDone
  \/ handleRefresh
  \/ \E b \in Pending, i \in Indices : ImageResponse(b, i)
  \/ \E b \in Pending, i \in Indices : InfoResponse(b, i)

SpecRefresh == Init /\ [][NextRefresh]_vars

\* The requests: mount and pull-to-refresh, and every response to every
\* request, those of a batch that has been rejected included.
NextRequests ==
  \/ Mount
  \/ handleRefresh
  \/ \E b \in DOMAIN batches, i \in Indices : ImageResponse(b, i)
  \/ \E b \in DOMAIN batches, i \in Indices : InfoResponse(b, i)
  \/ \E b \in DOMAIN batches, i \in Indices : ImageRequestFails(b, i)
  \/ \E b \in DOMAIN batches, i \in Indices : InfoRequestFails(b, i)

SpecRequests == Init /\ [][NextRequests]_vars

\* The requests of batch b before request i have run to their end: the
\* requests are answered one after the other.
AnsweredInOrder(b, i) ==
  \A j \in 0 .. i - 1 : batches[b].requests[j].stage = "done"

\* The filter sheet: every edit of the draft, Done and a tap outside, the
\* layout of the content after a render that changed its height, while the
\* batch started on mount is answered, request after request (every order
\* of the responses is followed in Spec).
NextSheet ==
  \/ Mount
  \/ handleFilterPress
  \/ onLayout
  \/ \E text \in WidthTexts : setWidth(text)
  \/ \E text \in HeightTexts : setHeight(text)
  \/ \E value \in SliderValues : setLocalBlurIntensity(value)
  \/ \E value \in BOOLEAN : setLocalIsGreyscale(value)
  \/ handleDone
  \/ TapOutside
  \/ \E i \in Indices : 1 \in Pending /\ AnsweredInOrder(1, i) /\ ImageResponse(1, i)
  \/ \E i \in Indices : 1 \in Pending /\ AnsweredInOrder(1, i) /\ InfoResponse(1, i)
  \/ \E i \in Indices :
       1 \in Pending /\ AnsweredInOrder(1, i) /\ OthersPastImage(1, i) /\ ImageRequestFails(1, i)
  \/ \E i \in Indices :
       1 \in Pending /\ AnsweredInOrder(1, i) /\ OthersPastImage(1, i) /\ InfoRequestFails(1, i)

SpecSheet == Init /\ [][NextSheet]_vars

\* Texts typed where the sheet is animated and laid out: a width Done
\* rejects and a width it commits.
LayoutTexts == { <<"5", "0">>, <<"5", "0", "0">> }

\* The list that is rendered: mount and pull-to-refresh, the responses and
\* the failures of the batch in flight and the end of the slide-out animation
\* in every order.
NextList ==
  \/ Mount
  \/ handleRefresh
  \/ \E b \in Pending, i \in Indices : ImageResponse(b, i)
  \/ \E b \in Pending, i \in Indices : InfoResponse(b, i)
  \/ \E b \in Pending, i \in Indices : OthersPastImage(b, i) /\ ImageRequestFails(b, i)
  \/ \E b \in Pending, i \in Indices : OthersPastImage(b, i) /\ InfoRequestFails(b, i)
  \/ SlideOutEnd

SpecList == Init /\ [][NextList]_vars

\* fetchImageAndPhotographer at every blur level, with and without greyscale.
NextFetch ==
  \/ \E index \in Indices, dimensions \in FetchDimensions, blur \in BlurLevels,
        greyscale \in BOOLEAN, randomNumber \in RandomNumbers :
       fetchImageAndPhotographer(index, dimensions, blur, greyscale, randomNumber)
  \/ FetchImageResponse
  \/ FetchInfoResponse
  \/ FetchInfoData
  \/ FetchRejected

SpecFetch == Init /\ [][NextFetch]_vars

\* The sheet on every device: opened, edited, confirmed and dismissed while
\* it slides, is laid out and the keyboard comes and goes; unmounted and
\* mounted again.
NextLayout ==
  \/ Mount
  \/ Unmount
  \/ handleFilterPress
  \/ \E text \in LayoutTexts : setWidth(text)
  \/ handleDone
  \/ TapOutside
  \/ SlideFrame
  \/ onLayout
  \/ \E reported \in KeyboardHeights : keyboardWillShow(reported)
  \/ keyboardWillHide

SpecLayout == InitLayout /\ [][NextLayout]_vars

(***************************************************************************)
(* The properties.                                                         *)
(***************************************************************************)
\* The filter a batch was started with, and the committed filter.
FilterOf(batch) == <<batch.dimensions, batch.blur, batch.greyscale>>
\* A text whose parseInt is a number outside [100, 1000].
OutsideRange(text) ==
  LET n == parseInt(text) IN ~isNaN(n) /\ (ValueOf(n) < 100 \/ ValueOf(n) > 1000)
\* A text that is the decimal notation of an integer.
IsIntegerText(text) ==
  /\ text # <<>>
  /\ \A k \in 1 .. Len(text) : \E d \in 1 .. 10 : DecimalDigits[d] = text[k]
\* The draft the sheet shows for the committed filter.
CommittedDraft ==
  <<toString(imageDimensions.width), toString(imageDimensions.height),
    blurIntensity, isGreyscale>>
\* Batch b settles in this step.
Settles(b) == batches[b].state = "pending" /\ batches'[b].state # "pending"

\* C1 (as claimed): a step that commits another filter starts exactly one
\* batch, and that batch uses the newly committed filter.
C1_CommitStartsOneBatch ==
  [][committed' # committed =>
       /\ Len(batches') = Len(batches) + 1
       /\ FilterOf(batches'[Len(batches')]) = committed']_vars

\* C2 (as claimed): when a batch settles after a newer batch was started, the
\* list and the loading flag stay as they are.
C2_SupersededBatchChangesNothing ==
  [][\A a \in DOMAIN batches :
       (Settles(a) /\ a < Len(batches)) => (images' = images /\ loading' = loading)]_vars

\* C3 (as claimed): when a request of a batch fails, the list is empty once
\* that batch has settled.
C3_FailedBatchLeavesListEmpty ==
  [][\A b \in DOMAIN batches :
       (Settles(b) /\ batches'[b].state = "rejected") => images' = <<>>]_vars

\* C4: Done with a draft width or height outside [100, 1000] does not call
\* onClose (the sheet stays visible), leaves the committed filter as it was
\* and starts no batch, whatever the draft blur and greyscale are.
C4_OutOfRangeDoneBlocksCommit ==
  [][(handleDone /\ (OutsideRange(width) \/ OutsideRange(height))) =>
       (bottomSheetVisible' /\ committed' = committed /\ batches' = batches)]_vars

\* C4 witness: the sheet after a rejected Done on a width below the range.
C4_Witness ==
  /\ bottomSheetVisible
  /\ OutsideRange(width)
  /\ widthError = WidthMessage
  /\ localBlurIntensity # blurIntensity
  /\ localIsGreyscale # isGreyscale

\* C5 (as claimed): Done with a width (height) text that is not an integer
\* sets the width (height) error and does not close the sheet.
C5_NonNumericDoneBlocksCommit ==
  [][handleDone =>
       /\ ~IsIntegerText(width) => (widthError' = WidthMessage /\ bottomSheetVisible')
       /\ ~IsIntegerText(height) => (heightError' = HeightMessage /\ bottomSheetVisible')]_vars

\* C6: whenever the sheet goes from hidden to visible, the draft is the
\* committed filter, whatever the draft held while the sheet was hidden.
C6_ReopenShowsCommitted ==
  [][(~bottomSheetVisible /\ bottomSheetVisible') => draft' = CommittedDraft']_vars

\* C6 witness: the sheet reopened after a rejected Done and a dismiss: the
\* width error of the rejected attempt is still set and the draft is the
\* committed filter again (no typed text is the default width).
C6_Witness ==
  /\ bottomSheetVisible
  /\ widthError = WidthMessage
  /\ imageDimensions.width = 900
  /\ draft = CommittedDraft

\* C7: Done with a draft equal to the committed filter (parsed width and
\* height, blur, greyscale) closes the sheet, starts no batch and leaves the
\* committed filter, the list and the loading flag as they are.
C7_UnchangedDoneStartsNothing ==
  [][(/\ handleDone
      /\ parseInt(width) = Num(imageDimensions.width)
      /\ parseInt(height) = Num(imageDimensions.height)
      /\ localBlurIntensity = blurIntensity
      /\ localIsGreyscale = isGreyscale) =>
       (/\ ~bottomSheetVisible'
        /\ batches' = batches
        /\ committed' = committed
        /\ images' = images
        /\ loading' = loading)]_vars

\* C7 witness: the sheet closed on a draft whose texts differ from the texts
\* of the committed filter and parse to it, the list of the mount batch shown.
C7_Witness ==
  /\ mounted /\ ~bottomSheetVisible
  /\ width # toString(imageDimensions.width)
  /\ parseInt(width) = Num(imageDimensions.width)
  /\ parseInt(height) = Num(imageDimensions.height)
  /\ localBlurIntensity = blurIntensity
  /\ localIsGreyscale = isGreyscale
  /\ widthError = "" /\ heightError = ""
  /\ images # <<>>

\* C8: when a batch is fulfilled, the item at index i of the list is the
\* result of request i: its id is image-i, its uri and photographer come from
\* the responses to request i.
C8_ItemsInRequestOrder ==
  [][\A b \in DOMAIN batches :
       (Settles(b) /\ batches'[b].state = "fulfilled") =>
         /\ Len(images') = BatchLength
         /\ \A i \in Indices :
              /\ images'[i + 1].id = <<"image-">> \o toString(i)
              /\ images'[i + 1].uri =
                   ImageUri(ServedId(b, i), batches[b].dimensions,
                            batches[b].blur, batches[b].greyscale)
              /\ images'[i + 1].photographer = AuthorOf(ServedId(b, i))]_vars

\* C8 witness: the list of a fulfilled batch is shown.
C8_Witness ==
  /\ Len(images) = BatchLength
  /\ batches[images[1].batch].state = "fulfilled"
  /\ images[BatchLength].photographer = AuthorOf(ServedId(images[1].batch, BatchLength - 1))

\* C9: the list is empty or holds the items of one fulfilled batch, all
\* fetched under the filter that batch was started with.
C9_ListOfOneBatch ==
  \/ images = <<>>
  \/ \E b \in DOMAIN batches :
       /\ batches[b].state = "fulfilled"
       /\ \A k \in 1 .. Len(images) :
            /\ images[k].batch = b
            /\ \E i \in Indices :
                 images[k].uri = ImageUri(ServedId(b, i), batches[b].dimensions,
                                          batches[b].blur, batches[b].greyscale)

\* C9 witness: the list of a batch started after the first commit is shown
\* while the batch started on mount was fulfilled too.
C9_Witness ==
  /\ images # <<>>
  /\ images[1].batch > 1
  /\ batches[images[1].batch].dimensions # batches[1].dimensions
  /\ batches[1].state = "fulfilled"

\* C10: a tap outside the sheet hides it and changes nothing else: the
\* committed filter, the batches, the list and the loading flag stay.
C10_DismissChangesNothing ==
  [][TapOutside =>
       (/\ ~bottomSheetVisible'
        /\ committed' = committed
        /\ batches' = batches
        /\ images' = images
        /\ loading' = loading)]_vars

\* C10 witness: the hidden sheet holds an edited draft that is not valid (so
\* it was not closed by Done), and no batch but the one of mount was started.
C10_Witness ==
  /\ mounted /\ ~bottomSheetVisible
  /\ OutsideRange(width)
  /\ localBlurIntensity # blurIntensity
  /\ Len(batches) = 1

\* The committed filter is a Filter of the data model.
CommittedInRange ==
  /\ imageDimensions.width \in 100 .. 1000
  /\ imageDimensions.height \in 100 .. 1000
  /\ blurIntensity \in SliderMinimum .. SliderMaximum
  /\ isGreyscale \in BOOLEAN

\* C11: in every state the committed width and height are integers in
\* [100, 1000], the committed blur an integer in [0, 10] and the committed
\* greyscale a boolean; a step that changes the committed filter sets all
\* four fields from the draft Done was pressed on, any other step none.
C11_CommittedFilterInRange ==
  /\ []CommittedInRange
  /\ [][committed' # committed =>
          /\ handleDone
          /\ imageDimensions' = [width |-> ValueOf(parseInt(width)),
                                 height |-> ValueOf(parseInt(height))]
          /\ blurIntensity' = localBlurIntensity
          /\ isGreyscale' = localIsGreyscale]_vars

\* C11 witness: a commit has replaced the four fields of the default filter.
C11_Witness ==
  /\ mounted /\ ~bottomSheetVisible
  /\ imageDimensions = [width |-> 500, height |-> 500]
  /\ blurIntensity = SliderMaximum
  /\ isGreyscale
  /\ Len(batches) > 1

\* The state of the sheet's state machine: the visible flag and where the
\* slide animation is.
SheetState ==
  IF bottomSheetVisible
  THEN (IF slideAnim = 0 THEN "Open" ELSE "Opening")
  ELSE (IF slideAnim = AnimationFrames THEN "Hidden" ELSE "Closing")

\* C12 (as claimed): while the sheet is mounted its state changes only along
\* Hidden -> Opening -> Open -> Closing -> Hidden, and Done on a draft that
\* fails validation leaves the visible flag set.
C12_SheetMovesAlongCycle ==
  [][(mounted /\ mounted') =>
       /\ SheetState' # SheetState =>
            <<SheetState, SheetState'>> \in
              { <<"Hidden", "Opening">>, <<"Opening", "Open">>,
                <<"Open", "Closing">>, <<"Closing", "Hidden">> }
       /\ (handleDone /\ ~validateDimensions(width, height).isValid) =>
            bottomSheetVisible']_vars

\* C13: Done on a draft that fails validation (a width or height that is not
\* a number or is outside [100, 1000]) starts no batch and leaves the list,
\* the loading flag, the visible flag, the committed filter, the draft and
\* the layout of the sheet as they are: nothing but the two error messages
\* may change.
C13_RejectedDoneStaysInSheet ==
  [][(handleDone /\ ~validateDimensions(width, height).isValid) =>
       /\ batches' = batches
       /\ images' = images
       /\ loading' = loading
       /\ bottomSheetVisible' = bottomSheetVisible
       /\ committed' = committed
       /\ draft' = draft
       /\ layout' = layout]_vars

\* C13 witness: Done was rejected for a height that is not a number while
\* the list of the mount batch is shown.
C13_Witness ==
  /\ bottomSheetVisible
  /\ isNaN(parseInt(height))
  /\ heightError = HeightMessage
  /\ widthError = ""
  /\ ~loading
  /\ Len(images) = BatchLength

\* The most recently started batch has failed.
LatestBatchFailed == batches # <<>> /\ batches[Len(batches)].state = "rejected"

\* C14 (as claimed): the step in which a batch settles clears the loading
\* flag, and once the latest batch has failed no request is issued (no batch
\* is started, no metadata request follows an image response) except by a
\* pull-to-refresh or a commit.
C14_NoRequestAfterFailure ==
  [][/\ \A b \in DOMAIN batches : Settles(b) => ~loading'
     /\ LatestBatchFailed =>
          \/ handleRefresh
          \/ handleDone
          \/ /\ Len(batches') = Len(batches)
             /\ ~\E b \in DOMAIN batches, i \in Indices : ImageResponse(b, i)]_vars

\* C14 (amended): the step in which a batch settles (fulfilled or rejected)
\* clears the loading flag, and a batch is started by mount, by a
\* pull-to-refresh or by Done only: the failure of a batch starts none.
C14_FailedBatchNotRetried ==
  [][/\ \A b \in DOMAIN batches : Settles(b) => ~loading'
     /\ Len(batches') # Len(batches) => (Mount \/ handleRefresh \/ handleDone)]_vars

\* C14 witness: the only batch has failed, the loading flag is clear, and a
\* request of the failed batch still awaits its image response.
C14_Witness ==
  /\ Len(batches) = 1
  /\ batches[1].state = "rejected"
  /\ ~loading
  /\ \E i \in Indices : batches[1].requests[i].stage = "image"

\* C15: in every state the list of the gallery screen is empty or holds one
\* item per request of a batch (10 in the code, BatchLength here), with the
\* ids image-0, image-1, ... in that order.
C15_ListEmptyOrWhole ==
  \/ images = <<>>
  \/ /\ Len(images) = BatchLength
     /\ \A k \in 1 .. BatchLength : images[k].id = <<"image-">> \o toString(k - 1)

\* C15 witness: the whole list of a later batch has replaced the list of the
\* batch started on mount.
C15_Witness ==
  /\ Len(images) = BatchLength
  /\ images[BatchLength].id = <<"image-">> \o toString(BatchLength - 1)
  /\ images[1].batch > 1
  /\ batches[1].state = "fulfilled"
  /\ ~loading

\* The room above the sheet when it rests with no keyboard.
RoomAboveSheet == window.height - LaidOutContentHeight

\* C16 (as claimed): when the keyboard is shown while the sheet is open, the
\* sheet is moved up by the height the keyboard reports, and by no more than
\* the room above it, so that its top edge stays inside the window; when the
\* keyboard hides the sheet is back at translateY 0.
C16_KeyboardShiftClamped ==
  [][/\ \A reported \in KeyboardHeights :
          (keyboardWillShow(reported) /\ SheetState = "Open") =>
            /\ translateY' = <<0 - (IF reported < RoomAboveSheet THEN reported
                                    ELSE RoomAboveSheet), 1>>
            /\ SheetTop'[1] >= 0
     /\ (keyboardWillHide /\ SheetState = "Open") => translateY' = <<0, 1>>]_vars

\* C17: while the sheet is mounted exactly one keyboardWillShow and one
\* keyboardWillHide listener are registered, however often the sheet was
\* opened and closed or mounted before, and none when it is not mounted.
C17_ListenersScopedToMount ==
  listeners = IF mounted
              THEN [keyboardWillShow |-> 1, keyboardWillHide |-> 1]
              ELSE [keyboardWillShow |-> 0, keyboardWillHide |-> 0]

\* C17 witness: the sheet of a second mount (the batch of the first mount
\* was dropped by the unmount) after it was opened, Done was rejected, and
\* it was closed by a tap outside.
C17_Witness ==
  /\ mounted /\ ~bottomSheetVisible
  /\ batches[1].state = "unmounted"
  /\ widthError = WidthMessage
  /\ slideAnim = AnimationFrames
  /\ listeners.keyboardWillShow = 1

\* A step that edits the draft: typing in a field, the slider, the switch.
EditsDraft ==
  \/ \E text \in WidthTexts : setWidth(text)
  \/ \E text \in HeightTexts : setHeight(text)
  \/ \E value \in SliderValues : setLocalBlurIntensity(value)
  \/ \E value \in BOOLEAN : setLocalIsGreyscale(value)

\* C18: typing in the width or height field, moving the blur slider and
\* toggling greyscale change the draft of the sheet only: the committed
\* filter, the batches, the list, the loading flag and the visible flag stay.
C18_EditsStayLocal ==
  [][EditsDraft =>
       /\ committed' = committed
       /\ batches' = batches
       /\ images' = images
       /\ loading' = loading
       /\ bottomSheetVisible' = bottomSheetVisible]_vars

\* C18 witness: the four fields of the draft were edited to a valid draft
\* and the committed filter is the default one, fetched once.
C18_Witness ==
  /\ bottomSheetVisible
  /\ parseInt(width) = Num(500)
  /\ parseInt(height) = Num(500)
  /\ localBlurIntensity = SliderMaximum
  /\ localIsGreyscale
  /\ imageDimensions = [width |-> 900, height |-> 600]
  /\ blurIntensity = 0
  /\ ~isGreyscale
  /\ Len(batches) = 1

\* The filter AppContent is constructed with.
DefaultFilter == <<[width |-> 900, height |-> 600], 0, FALSE>>

\* Mount starts exactly one batch, with the default filter, loading set.
MountStartsDefaultBatch ==
  Mount => /\ Len(batches') = Len(batches) + 1
           /\ FilterOf(batches'[Len(batches')]) = DefaultFilter
           /\ loading'

\* C19 (as claimed): mount starts exactly one batch, with the filter width
\* 900, height 600, blur 0, greyscale off, and the loading flag is set for
\* as long as that batch has not settled.
C19_LoadingUntilMountBatchSettles ==
  /\ [][MountStartsDefaultBatch]_vars
  /\ []((mounted /\ batches[1].state = "pending") => loading)

\* C19 (amended): mount starts exactly one batch, with the default filter,
\* and while it is the only batch the loading flag is set exactly as long as
\* that batch has not settled.
C19_MountStartsOneDefaultBatch ==
  /\ [][MountStartsDefaultBatch]_vars
  /\ []((mounted /\ Len(batches) = 1) => (loading <=> batches[1].state = "pending"))

\* C19 witness: the batch of mount, fetched with the default filter, has
\* settled and the loading flag is clear.
C19_Witness ==
  /\ mounted
  /\ Len(batches) = 1
  /\ FilterOf(batches[1]) = DefaultFilter
  /\ batches[1].state = "fulfilled"
  /\ ~loading

\* C20: a pull-to-refresh empties the list, sets the loading flag, starts
\* exactly one batch, which uses the filter committed when the list is
\* pulled, and leaves the committed filter as it is.
C20_RefreshUsesCommittedFilter ==
  [][handleRefresh =>
       /\ images' = <<>>
       /\ loading'
       /\ Len(batches') = Len(batches) + 1
       /\ FilterOf(batches'[Len(batches')]) = committed
       /\ SubSeq(batches', 1, Len(batches)) = batches
       /\ committed' = committed]_vars

\* C20 witness: the list was pulled after a commit of another width: the
\* batch of the pull is in flight with the committed width.
C20_Witness ==
  /\ Len(batches) = MaxPulledBatches
  /\ imageDimensions.width # 900
  /\ batches[Len(batches)].dimensions = imageDimensions
  /\ batches[Len(batches)].state = "pending"
  /\ \A b \in 1 .. Len(batches) - 1 : batches[b].state # "pending"
  /\ loading /\ images = <<>>

(***************************************************************************)
(* C21.                                                                    *)
(***************************************************************************)
\* The query of a URL: the pieces after its first "?".
QueryOf(url) ==
  LET marks == { k \in 1 .. Len(url) : url[k] = "?" }
  IN SubSeq(url, (CHOOSE k \in marks : \A j \in marks : k <= j) + 1, Len(url))

\* The parameters of a query: what stands between its "&"s.
RECURSIVE SplitQuery(_)
SplitQuery(query) ==
  LET marks == { k \in 1 .. Len(query) : query[k] = "&" }
  IN IF marks = {} THEN <<query>>
     ELSE LET first == CHOOSE k \in marks : \A j \in marks : k <= j
          IN <<SubSeq(query, 1, first - 1)>> \o SplitQuery(SubSeq(query, first + 1, Len(query)))

\* The parameters a URL carries: none when it has no "?".
ParametersOf(url) ==
  IF \A k \in 1 .. Len(url) : url[k] # "?" THEN <<>> ELSE SplitQuery(QueryOf(url))

\* The parameters that say a blur level or the grayscale flag.
IsSetting(parameter) == parameter # <<>> /\ parameter[1] \in {"blur", "grayscale"}

\* The settings a call with this blur and greyscale has to carry.
SettingsOf(blur, greyscale) ==
  (IF blur > 0 THEN { <<"blur", "=">> \o toString(blur) } ELSE {})
    \cup (IF greyscale THEN { <<"grayscale">> } ELSE {})

\* C21: for every blur of 0..10 and every greyscale, the URL of the image
\* request carries the parameter blur=<level> exactly when blur > 0 and the
\* flag grayscale exactly when greyscale is set (and no other blur or
\* grayscale parameter), and the uri of the item has a well-formed query
\* that is made of exactly these settings: no "?" when there is none, "?"
\* before the first and "&" before the second.
C21_UrlsCarryBlurAndGreyscale ==
  \A k \in DOMAIN fetchCall :
    LET call == fetchCall[k]
        settings == SettingsOf(call.blur, call.greyscale)
        requested == SelectSeq(ParametersOf(call.request), IsSetting)
    IN /\ { requested[j] : j \in DOMAIN requested } = settings
       /\ Len(requested) = Cardinality(settings)
       /\ \A n \in DOMAIN call.item :
            LET shown == ParametersOf(call.item[n].uri)
            IN /\ { shown[j] : j \in DOMAIN shown } = settings
               /\ Len(shown) = Cardinality(settings)

\* A call with greyscale and no blur has resolved: the item's query is the
\* one flag, and the request carried it after the random number.
C21_Witness ==
  /\ fetchCall # <<>>
  /\ fetchCall[1].stage = "done"
  /\ fetchCall[1].blur = 0
  /\ fetchCall[1].greyscale
  /\ ParametersOf(fetchCall[1].item[1].uri) = << <<"grayscale">> >>
  /\ Len(ParametersOf(fetchCall[1].request)) = 2

(***************************************************************************)
(* C22.                                                                    *)
(***************************************************************************)
\* C22: while a batch is in flight (its Promise.all has not settled) the
\* loading flag is set; the flag is clear only when no batch is outstanding,
\* also when two batches overlap.
C22_LoadingWhileBatchInFlight == mounted /\ Pending # {} => loading

(***************************************************************************)
(* C23.                                                                    *)
(***************************************************************************)
\* C23: once the loading flag is clear after a successful batch (the fetched
\* list holds its items), the list ImageList renders, animatedImages, is the
\* fetched list: the callback of the slide-out animation does not empty it
\* after the items were copied, whether the batch or the animation ends
\* first.
C23_RenderedListIsFetchedList ==
  mounted /\ ~loading /\ images # <<>> => imageList.animatedImages = images

(***************************************************************************)
(* C24.                                                                    *)
(***************************************************************************)
\* C24: in a step that leaves the sheet visible and changes its total height
\* (the error line appears or goes after a Done, the content is measured
\* for the first time) or the committed filter, the draft width and height
\* become the texts of the committed width and height: what the user typed
\* is overwritten without a dismiss or a confirm.
C24_HeightChangeResetsDraft ==
  [][ /\ bottomSheetVisible /\ bottomSheetVisible'
      /\ totalHeight' # totalHeight \/ committed' # committed
      => /\ width' = toString(imageDimensions'.width)
         /\ height' = toString(imageDimensions'.height) ]_vars

\* Done has rejected a typed width, the error line has been laid out, and the
\* sheet, still fully shown, has the committed width in its field again.
C24_Witness ==
  /\ mounted /\ bottomSheetVisible
  /\ slideAnim = 0
  /\ widthError = WidthMessage
  /\ contentHeight = MeasuredContentHeight(TRUE, safeBottomInset, OS)
  /\ width = toString(imageDimensions.width)
  /\ width \notin LayoutTexts

(***************************************************************************)
(* C25.                                                                    *)
(***************************************************************************)
\* C25: the two error messages change in no step but a press of Done; so
\* the step that shows the sheet again after a dismiss leaves the messages
\* of the earlier rejected attempt as they are, next to the committed width
\* and height it puts into the fields.
C25_ErrorsChangeOnDoneOnly ==
  [][ /\ errors' # errors => handleDone
      /\ ~bottomSheetVisible /\ bottomSheetVisible'
         => /\ errors' = errors
            /\ width' = toString(imageDimensions'.width)
            /\ height' = toString(imageDimensions'.height) ]_vars

\* The sheet shown again after Done rejected a typed height and the sheet
\* was dismissed: the fields hold the committed 900 and 600 (which no typed
\* text is), both valid, under the height message of the rejected attempt.
C25_Witness ==
  /\ mounted /\ bottomSheetVisible
  /\ heightError = HeightMessage
  /\ width = toString(900) /\ height = toString(600)
  /\ imageDimensions = [width |-> 900, height |-> 600]
  /\ validateDimensions(width, height).isValid
====
